---------------------------- MODULE Spec2Model ----------------------------
(***************************************************************************)
(* A model of lvsfunc.misc: replace_ranges, limit_dark, load_bookmarks and *)
(* frames_since_bookmark.                                                  *)
(*                                                                         *)
(* A clip is a finite sequence of frames.  Python indexes frames from 0,   *)
(* TLA+ sequences from 1: frame i of a clip c is c[i + 1].  Clip slicing   *)
(* and clip concatenation are the operations of the VapourSynth Python     *)
(* binding that the source calls through c[x:y] and c + d.                 *)
(*                                                                         *)
(* Floating point thresholds and frame averages are only ever compared,    *)
(* so they are modelled by integers (a fixed-point scale).                 *)
(***************************************************************************)
EXTENDS Integers, Sequences, FiniteSets

VARIABLES clip_a, clip_b, ranges, out, idx, pc,
          threshold, threshold_range, avg, ld_pc, emitted,
          raw, bookmarks, n, i, result, fsb_pc

rr_vars  == <<clip_a, clip_b, ranges, out, idx, pc>>
ld_vars  == <<threshold, threshold_range, avg, ld_pc, emitted>>
fsb_vars == <<raw, bookmarks, n, i, result, fsb_pc>>
vars     == <<rr_vars, ld_vars, fsb_vars>>

\* ------------------------------------------------------------------ bounds
\* longest clip (base or replacement) of a replace_ranges call
MaxLen == 3
\* longest list of ranges of a replace_ranges call
MaxRanges == 2
\* number of frames of the clips of a limit_dark call
NumFrames == 2
\* thresholds and frame averages are drawn from -1 .. MaxLevel
MaxLevel == 2
\* bookmarks are drawn from 0 .. MaxBookmark, frame numbers from
\* 0 .. MaxBookmark + 1
MaxBookmark == 3
\* longest bookmark list read from a file or passed by the caller
MaxListLen == 3

\* ---------------------------------------------------------- Python values
\* None, and a value that is not None
None == <<>>
Some(v) == <<v>>

\* ------------------------------------------------------------------- clips
\* a clip of len frames, frame number k carrying the mark <<tag, k>>
Clip(tag, len) == [k \in 1..len |-> <<tag, k - 1>>]

\* clip.num_frames
num_frames(clip) == Len(clip)

\* the result of an engine call that raised
Raised == [ok |-> FALSE, frames |-> <<>>]

\* the result of an engine call that returned the clip frames
Returned(frames) == [ok |-> TRUE, frames |-> frames]

\* slice.indices(len) for one bound of a slice with step 1: a negative bound
\* counts from the end, and the bound is clamped into 0 .. len
SliceIndex(v, len) ==
    IF v < 0 THEN (IF v + len < 0 THEN 0 ELSE v + len)
    ELSE IF v > len THEN len ELSE v

\* Trim as a list slice would be: an empty result instead of an error
Trim_AllowEmpty(clip, first, last) ==
    Returned(SubSeq(clip, first + 1, last + 1))

\* std.Trim(clip, first, last), frames first .. last inclusive; a clip has
\* at least one frame, so last < first raises
Trim(clip, first, last) ==
    IF last < first THEN Raised
    ELSE Returned(SubSeq(clip, first + 1, last + 1))

\* clip[start:stop]: the bounds go through slice.indices, then Trim
Slice(clip, start, stop) ==
    Trim(clip, SliceIndex(start, num_frames(clip)),
               SliceIndex(stop, num_frames(clip)) - 1)

\* clip[:stop]
SliceTo(clip, stop) == Slice(clip, 0, stop)

\* clip[start:]
SliceFrom(clip, start) == Slice(clip, start, num_frames(clip))

\* x + y on clips (std.Splice); an operand that raised never gets here, the
\* exception propagates
Splice(x, y) ==
    IF x.ok /\ y.ok THEN Returned(x.frames \o y.frames) ELSE Raised

\* ---------------------------------------------------------- replace_ranges
\* a range of the list: a single frame number r, or a tuple (start, end)
IntRange(r) == <<r>>
TupleRange(start, end) == <<start, end>>

\* type(r) is tuple
IsTuple(r) == Len(r) = 2

\* lines 104-108: start, end = r   or   start = end = r
RangeStart(r) == r[1]
RangeEnd(r) == IF IsTuple(r) THEN r[2] ELSE r[1]

\* ReplaceOne with the replacement's slice ending before frame end
ReplaceOne_ExclusiveEnd(o, b, start, end) ==
    LET tmp0 == Slice(b, start, end)
        tmp1 == IF start # 0 THEN Splice(SliceTo(o, start), tmp0) ELSE tmp0
        tmp2 == IF tmp1.ok /\ end < num_frames(o) - 1
                  THEN Splice(tmp1, SliceFrom(o, end + 1))
                  ELSE tmp1
    IN  tmp2

\* ReplaceOne with the kept head one frame too long
ReplaceOne_LongHead(o, b, start, end) ==
    LET tmp0 == Slice(b, start, end + 1)
        tmp1 == IF start # 0 THEN Splice(SliceTo(o, start + 1), tmp0) ELSE tmp0
        tmp2 == IF tmp1.ok /\ end < num_frames(o) - 1
                  THEN Splice(tmp1, SliceFrom(o, end + 1))
                  ELSE tmp1
    IN  tmp2

\* ReplaceOne with the kept tail starting at frame end
ReplaceOne_LongTail(o, b, start, end) ==
    LET tmp0 == Slice(b, start, end + 1)
        tmp1 == IF start # 0 THEN Splice(SliceTo(o, start), tmp0) ELSE tmp0
        tmp2 == IF tmp1.ok /\ end < num_frames(o) - 1
                  THEN Splice(tmp1, SliceFrom(o, end))
                  ELSE tmp1
    IN  tmp2

\* ReplaceOne with the head taken from the replacement clip
ReplaceOne_HeadFromReplacement(o, b, start, end) ==
    LET tmp0 == Slice(b, start, end + 1)
        tmp1 == IF start # 0 THEN Splice(SliceTo(b, start), tmp0) ELSE tmp0
        tmp2 == IF tmp1.ok /\ end < num_frames(o) - 1
                  THEN Splice(tmp1, SliceFrom(o, end + 1))
                  ELSE tmp1
    IN  tmp2

\* lines 109-114, one iteration of the loop on the working clip o
ReplaceOne(o, b, start, end) ==
    LET tmp0 == Slice(b, start, end + 1)
        tmp1 == IF start # 0 THEN Splice(SliceTo(o, start), tmp0) ELSE tmp0
        tmp2 == IF tmp1.ok /\ end < num_frames(o) - 1
                  THEN Splice(tmp1, SliceFrom(o, end + 1))
                  ELSE tmp1
    IN  tmp2

\* lines 102-115 as a function: the fold of ReplaceOne over the list, or
\* Raised when an iteration raises
RECURSIVE replace_ranges(_, _, _)
replace_ranges(a, b, rs) ==
    IF rs = <<>> THEN Returned(a)
    ELSE LET before == replace_ranges(a, b, SubSeq(rs, 1, Len(rs) - 1))
             r      == rs[Len(rs)]
         IN  IF before.ok
               THEN ReplaceOne(before.frames, b, RangeStart(r), RangeEnd(r))
               ELSE Raised

\* the values a range bound is drawn from, for a base clip of len frames:
\* every frame number, one below the first and one above the last
Bounds(len) == (0 - 1)..len

\* the ranges a caller can write
Ranges(len) == {IntRange(r) : r \in Bounds(len)}
                 \cup {TupleRange(s, e) : s \in Bounds(len), e \in Bounds(len)}

\* the lists of at most MaxRanges ranges
RangeLists(len) == UNION {[1..k -> Ranges(len)] : k \in 0..MaxRanges}

\* the lengths of the replacement clip tried with a base clip of len frames
ReplacementLens(len) == {l \in {len - 1, len, len + 1} : l >= 1}

\* a call replace_ranges(clip_a, clip_b, ranges): line 102, out = clip_a
RRInit ==
    /\ \E la \in 1..MaxLen :
          /\ clip_a = Clip("a", la)
          /\ \E lb \in ReplacementLens(la) : clip_b = Clip("b", lb)
          /\ ranges \in RangeLists(la)
    /\ out = clip_a
    /\ idx = 0
    /\ pc = "loop"

\* lines 103-114: the next range is processed and the loop goes on
RRIterate ==
    /\ pc = "loop"
    /\ idx < Len(ranges)
    /\ LET r   == ranges[idx + 1]
           tmp == ReplaceOne(out, clip_b, RangeStart(r), RangeEnd(r))
       IN  /\ tmp.ok
           /\ out' = tmp.frames
    /\ idx' = idx + 1
    /\ UNCHANGED <<clip_a, clip_b, ranges, pc, ld_vars, fsb_vars>>

\* lines 109-113: a slice of the next range raises, replace_ranges ends
\* with the exception
RRRaise ==
    /\ pc = "loop"
    /\ idx < Len(ranges)
    /\ LET r == ranges[idx + 1]
       IN  ~ReplaceOne(out, clip_b, RangeStart(r), RangeEnd(r)).ok
    /\ pc' = "raised"
    /\ UNCHANGED <<clip_a, clip_b, ranges, out, idx, ld_vars, fsb_vars>>

\* line 115: return out
RRReturn ==
    /\ pc = "loop"
    /\ idx = Len(ranges)
    /\ pc' = "done"
    /\ UNCHANGED <<clip_a, clip_b, ranges, out, idx, ld_vars, fsb_vars>>

RRNext == RRIterate \/ RRRaise \/ RRReturn

\* -------------------------------------------------------------- limit_dark
\* the truth value Python gives an Optional number: None and 0 are false
Truthy(v) == v # None /\ v[1] # 0

\* _diff with the input clip kept from the threshold on
_diff_AtLeast(average, thr, thr_range) ==
    IF Truthy(thr_range)
      THEN (IF thr_range[1] <= average /\ average <= thr THEN "filtered" ELSE "clip")
      ELSE (IF average >= thr THEN "clip" ELSE "filtered")

\* lines 187-191: _diff for a frame whose PlaneStatsAverage is average; the
\* frame comes from the filtered clip or from the input clip
_diff(average, thr, thr_range) ==
    IF Truthy(thr_range)
      THEN (IF thr_range[1] <= average /\ average <= thr THEN "filtered" ELSE "clip")
      ELSE (IF average > thr THEN "clip" ELSE "filtered")

\* line 193: the condition of the ValueError
RangeAboveThreshold(thr, thr_range) ==
    Truthy(thr_range) /\ thr_range[1] > thr

\* the values thresholds and frame averages are drawn from
Levels == (0 - 1)..MaxLevel

\* a call limit_dark(clip, filtered, threshold, threshold_range) on clips
\* of NumFrames frames; avg[k + 1] is the PlaneStatsAverage of frame k
LDInit ==
    /\ threshold \in Levels
    /\ threshold_range \in {None} \cup {Some(v) : v \in Levels}
    /\ avg \in [1..NumFrames -> Levels]
    /\ emitted = [k \in 1..NumFrames |-> "unset"]
    /\ ld_pc = "call"

\* lines 193-194: raise ValueError
LDRaise ==
    /\ ld_pc = "call"
    /\ RangeAboveThreshold(threshold, threshold_range)
    /\ ld_pc' = "raised"
    /\ UNCHANGED <<threshold, threshold_range, avg, emitted, rr_vars, fsb_vars>>

\* lines 196-197: PlaneStats and FrameEval build the output clip
LDBuild ==
    /\ ld_pc = "call"
    /\ ~RangeAboveThreshold(threshold, threshold_range)
    /\ ld_pc' = "built"
    /\ UNCHANGED <<threshold, threshold_range, avg, emitted, rr_vars, fsb_vars>>

\* FrameEval asks _diff for frame k of the output clip
LDFrame ==
    /\ ld_pc = "built"
    /\ \E k \in 1..NumFrames :
          emitted' = [emitted EXCEPT
                        ![k] = _diff(avg[k], threshold, threshold_range)]
    /\ UNCHANGED <<threshold, threshold_range, avg, ld_pc, rr_vars, fsb_vars>>

LDNext == LDRaise \/ LDBuild \/ LDFrame

\* ------------------------------------ load_bookmarks, frames_since_bookmark
\* load_bookmarks without the insertion
load_bookmarks_AsRead(file) == file

\* lines 258-259: bookmarks.insert(0, 0) unless the list starts with 0
load_bookmarks(file) == IF file[1] # 0 THEN <<0>> \o file ELSE file

\* line 278: the first branch of the loop body, at index j (from 0)
LastMatch(frame, marks, j) ==
    frame - marks[j + 1] >= 0 /\ j + 1 >= Len(marks)

\* NextIsLater with the next bookmark itself counted as later
NextIsLater_OrEqual(frame, marks, j) ==
    frame - marks[j + 1] >= 0 /\ frame - marks[j + 2] <= 0

\* line 280: the second branch of the loop body, at index j (from 0)
NextIsLater(frame, marks, j) ==
    frame - marks[j + 1] >= 0 /\ frame - marks[j + 2] < 0

\* the numbers written in a bookmarks file, or a list the caller built
BookmarkLists == UNION {[1..k -> 0..MaxBookmark] : k \in 1..MaxListLen}

\* the frame numbers FrameEval asks for
FrameNumbers == 0..(MaxBookmark + 1)

FSBInit ==
    /\ raw \in BookmarkLists
    /\ bookmarks = <<>>
    /\ n = 0 /\ i = 0 /\ result = None
    /\ fsb_pc = "start"

\* frames_since_bookmark(clip, load_bookmarks(path))
FSBLoad ==
    /\ fsb_pc = "start"
    /\ bookmarks' = load_bookmarks(raw)
    /\ fsb_pc' = "ready"
    /\ UNCHANGED <<raw, n, i, result, rr_vars, ld_vars>>

\* frames_since_bookmark(clip, bookmarks) on a list of the caller's own
FSBPass ==
    /\ fsb_pc = "start"
    /\ bookmarks' = raw
    /\ fsb_pc' = "ready"
    /\ UNCHANGED <<raw, n, i, result, rr_vars, ld_vars>>

\* FrameEval calls _frames_since_bookmark for frame m; result is a local
\* of the call, not bound yet
FSBRequest ==
    /\ fsb_pc \in {"ready", "returned"}
    /\ \E m \in FrameNumbers : n' = m
    /\ i' = 0
    /\ result' = None
    /\ fsb_pc' = "loop"
    /\ UNCHANGED <<raw, bookmarks, rr_vars, ld_vars>>

\* lines 275-279: the first branch, the loop goes on to the next index
FSBLast ==
    /\ fsb_pc = "loop" /\ i < Len(bookmarks)
    /\ LastMatch(n, bookmarks, i)
    /\ result' = Some(n - bookmarks[i + 1])
    /\ i' = i + 1
    /\ UNCHANGED <<raw, bookmarks, n, fsb_pc, rr_vars, ld_vars>>

\* lines 280-282: the second branch, and break
FSBBreak ==
    /\ fsb_pc = "loop" /\ i < Len(bookmarks)
    /\ ~LastMatch(n, bookmarks, i)
    /\ NextIsLater(n, bookmarks, i)
    /\ result' = Some(n - bookmarks[i + 1])
    /\ fsb_pc' = "break"
    /\ UNCHANGED <<raw, bookmarks, n, i, rr_vars, ld_vars>>

\* lines 275-280: neither branch, the loop goes on to the next index
FSBSkip ==
    /\ fsb_pc = "loop" /\ i < Len(bookmarks)
    /\ ~LastMatch(n, bookmarks, i)
    /\ ~NextIsLater(n, bookmarks, i)
    /\ i' = i + 1
    /\ UNCHANGED <<raw, bookmarks, n, result, fsb_pc, rr_vars, ld_vars>>

\* the loop is over: by break, or with the list exhausted
LoopOver == fsb_pc = "break" \/ (fsb_pc = "loop" /\ i = Len(bookmarks))

\* line 284 with result bound: the callback returns
FSBReturn ==
    /\ LoopOver
    /\ result # None
    /\ fsb_pc' = "returned"
    /\ UNCHANGED <<raw, bookmarks, n, i, result, rr_vars, ld_vars>>

\* line 284 with result never assigned: UnboundLocalError
FSBUnbound ==
    /\ LoopOver
    /\ result = None
    /\ fsb_pc' = "unbound"
    /\ UNCHANGED <<raw, bookmarks, n, i, result, rr_vars, ld_vars>>

FSBNext ==
    \/ FSBLoad \/ FSBPass \/ FSBRequest
    \/ FSBLast \/ FSBBreak \/ FSBSkip
    \/ FSBReturn \/ FSBUnbound

\* ---------------------------------------------------------- specifications
\* no call of replace_ranges in progress
RRIdle ==
    /\ clip_a = <<>> /\ clip_b = <<>> /\ ranges = <<>> /\ out = <<>>
    /\ idx = 0 /\ pc = "idle"

\* no call of limit_dark in progress
LDIdle ==
    /\ threshold = 0 /\ threshold_range = None /\ avg = <<>>
    /\ ld_pc = "idle" /\ emitted = <<>>

\* no call of frames_since_bookmark in progress
FSBIdle ==
    /\ raw = <<>> /\ bookmarks = <<>> /\ n = 0 /\ i = 0
    /\ result = None /\ fsb_pc = "idle"

\* a call of replace_ranges
InitRR == RRInit /\ LDIdle /\ FSBIdle
SpecRR == InitRR /\ [][RRNext]_vars

\* a call of limit_dark and the frames asked of its result
InitLD == RRIdle /\ LDInit /\ FSBIdle
SpecLD == InitLD /\ [][LDNext]_vars

\* a call of frames_since_bookmark and the frames asked of its result
InitFSB == RRIdle /\ LDIdle /\ FSBInit
SpecFSB == InitFSB /\ [][FSBNext]_vars


\* ------------------------------------------- replace_ranges: the claims
\* frame number k (from 0) of a clip
Frame(clip, k) == clip[k + 1]

\* 0 <= start <= end <= len - 1
Valid(r, len) ==
    /\ 0 <= RangeStart(r)
    /\ RangeStart(r) <= RangeEnd(r)
    /\ RangeEnd(r) <= len - 1

\* every range of the call is valid for the base clip
AllValid == \A k \in 1..Len(ranges) : Valid(ranges[k], num_frames(clip_a))

\* base and replacement have the same length
EqualLength == num_frames(clip_a) = num_frames(clip_b)

\* frame number k lies in range r
InRange(k, r) == RangeStart(r) <= k /\ k <= RangeEnd(r)

\* frame number k lies in some range of the list rs
Covered(k, rs) == \E j \in 1..Len(rs) : InRange(k, rs[j])

\* two ranges share a frame number
Overlap(r1, r2) == RangeStart(r1) <= RangeEnd(r2) /\ RangeStart(r2) <= RangeEnd(r1)

\* no two ranges of the list rs share a frame number
PairwiseDisjoint(rs) ==
    \A j, k \in 1..Len(rs) : j # k => ~Overlap(rs[j], rs[k])

\* the orders a list of len entries can be put in
Permutations(len) ==
    {p \in [1..len -> 1..len] : \A j, k \in 1..len : p[j] = p[k] => j = k}

\* the list rs in the order p
Permuted(rs, p) == [k \in 1..Len(rs) |-> rs[p[k]]]

\* C1: with base and replacement of equal length L and every range valid,
\* replace_ranges does not raise and returns L frames, frame k being the
\* replacement's when some range covers k and the base's otherwise.
C1_CoveredFromReplacement ==
    (EqualLength /\ AllValid) =>
        /\ pc # "raised"
        /\ pc = "done" =>
              /\ num_frames(out) = num_frames(clip_a)
              /\ \A k \in 0..(num_frames(clip_a) - 1) :
                    Frame(out, k) = IF Covered(k, ranges)
                                      THEN Frame(clip_b, k)
                                      ELSE Frame(clip_a, k)

\* a call over two overlapping ranges that leave a frame of the base
\* uncovered has returned
C1_Witness ==
    /\ pc = "done" /\ EqualLength /\ AllValid
    /\ Len(ranges) = 2
    /\ ranges[1] # ranges[2]
    /\ Overlap(ranges[1], ranges[2])
    /\ \E k \in 0..(num_frames(clip_a) - 1) : ~Covered(k, ranges)
    /\ \E k \in 0..(num_frames(clip_a) - 1) : Covered(k, ranges)

\* C2 as stated: whatever the replacement's length, with every range valid
\* for the base the working clip always has the base's length.
C2_LengthAnyReplacement ==
    AllValid => num_frames(out) = num_frames(clip_a)

\* C2 amended: with a replacement at least as long as the base and every
\* range valid for the base, the working clip has the base's length after
\* each processed range, and so has the returned clip.
C2_LengthPreserved ==
    (num_frames(clip_b) >= num_frames(clip_a) /\ AllValid) =>
        /\ pc # "raised"
        /\ num_frames(out) = num_frames(clip_a)

\* a call with a longer replacement has returned after two ranges, the
\* second one reaching the base's last frame
C2_Witness ==
    /\ pc = "done" /\ AllValid
    /\ num_frames(clip_b) > num_frames(clip_a)
    /\ Len(ranges) = 2
    /\ RangeEnd(ranges[2]) = num_frames(clip_a) - 1
    /\ RangeStart(ranges[2]) > 0

\* C3: with equal lengths and pairwise disjoint valid ranges, every order
\* of the range list returns the clip this call returned.
C3_OrderIndependentDisjoint ==
    (pc = "done" /\ EqualLength /\ AllValid /\ PairwiseDisjoint(ranges)) =>
        \A p \in Permutations(Len(ranges)) :
            replace_ranges(clip_a, clip_b, Permuted(ranges, p)) = Returned(out)

\* a call over two disjoint ranges has returned
C3_Witness ==
    /\ pc = "done" /\ EqualLength /\ AllValid
    /\ Len(ranges) = 2
    /\ ~Overlap(ranges[1], ranges[2])
    /\ RangeStart(ranges[1]) > RangeEnd(ranges[2])

\* C4 as stated: some base and replacement of equal length and some two
\* overlapping valid ranges r1, r2 give different clips in the orders
\* [r1, r2] and [r2, r1].
C4_OrderDependentOverlap ==
    pc = "done" =>
        \E len \in 1..MaxLen : \E r1, r2 \in Ranges(len) :
            /\ Valid(r1, len) /\ Valid(r2, len) /\ Overlap(r1, r2)
            /\ replace_ranges(Clip("a", len), Clip("b", len), <<r1, r2>>)
                  # replace_ranges(Clip("a", len), Clip("b", len), <<r2, r1>>)

\* C4 amended: with equal lengths and two overlapping valid ranges r1, r2,
\* the clip returned for [r1, r2] is the clip returned for [r2, r1]: the
\* fold equals the single pass over the union of the covered frames.
C4_OrderIndependentOverlap ==
    (/\ pc = "done" /\ EqualLength /\ AllValid
     /\ Len(ranges) = 2 /\ Overlap(ranges[1], ranges[2])) =>
        /\ replace_ranges(clip_a, clip_b, <<ranges[2], ranges[1]>>) = Returned(out)
        /\ num_frames(out) = num_frames(clip_a)
        /\ \A k \in 0..(num_frames(clip_a) - 1) :
              Frame(out, k) = IF InRange(k, ranges[1]) \/ InRange(k, ranges[2])
                                THEN Frame(clip_b, k)
                                ELSE Frame(clip_a, k)

\* a call over two overlapping ranges, neither inside the other, has returned
C4_Witness ==
    /\ pc = "done" /\ EqualLength /\ AllValid
    /\ Len(ranges) = 2
    /\ Overlap(ranges[1], ranges[2])
    /\ RangeStart(ranges[1]) < RangeStart(ranges[2])
    /\ RangeEnd(ranges[1]) < RangeEnd(ranges[2])

\* start < 0, end > len - 1 or start > end
Invalid(r, len) == ~Valid(r, len)

\* C5 as stated: the loop never gets past a range with start < 0,
\* end > len(base) - 1 or start > end; a call with such a range raises
\* when it reaches the range and never returns.
C5_InvalidRangeRaises ==
    \A k \in 1..Len(ranges) :
        Invalid(ranges[k], num_frames(clip_a)) => /\ idx < k
                                                  /\ pc # "done"

\* a range whose slice of the replacement is empty: end < start with
\* end >= 0, or start beyond the last frame
EmptySlice(r, len) ==
    \/ 0 <= RangeEnd(r) /\ RangeEnd(r) < RangeStart(r)
    \/ RangeStart(r) > len - 1

\* C5 amended: with base and replacement of equal length, the loop never
\* gets past a range with 0 <= end < start or with start > len(base) - 1;
\* a call with such a range raises when it reaches the range (or an
\* earlier one) and never returns.
C5_EmptySliceRaises ==
    EqualLength =>
        \A k \in 1..Len(ranges) :
            EmptySlice(ranges[k], num_frames(clip_a)) => /\ idx < k
                                                         /\ pc # "done"

\* a call has raised at its second range, which has 0 <= end < start,
\* after a first valid range was applied
C5_Witness ==
    /\ pc = "raised" /\ EqualLength
    /\ Len(ranges) = 2 /\ idx = 1
    /\ Valid(ranges[1], num_frames(clip_a))
    /\ out # clip_a
    /\ 0 <= RangeEnd(ranges[2]) /\ RangeEnd(ranges[2]) < RangeStart(ranges[2])
    /\ RangeStart(ranges[2]) <= num_frames(clip_a) - 1

\* ----------------------------------------------- limit_dark: the claims
\* C6: with threshold_range None the call builds its clip, and every frame
\* asked for is the filtered clip's when its average is <= threshold and
\* the input clip's when its average is > threshold.
C6_NoRangePolarity ==
    threshold_range = None =>
        /\ ld_pc # "raised"
        /\ \A k \in 1..NumFrames :
              emitted[k] # "unset" =>
                 emitted[k] = IF avg[k] <= threshold THEN "filtered" ELSE "clip"

\* both frames were asked for: the first has its average at the threshold,
\* the second above it
C6_Witness ==
    /\ ld_pc = "built" /\ threshold_range = None
    /\ avg[1] = threshold /\ emitted[1] = "filtered"
    /\ avg[2] > threshold /\ emitted[2] = "clip"

\* C7 as stated: with threshold_range not None (0 included) and
\* threshold_range <= threshold, a frame asked for is the filtered clip's
\* exactly when threshold_range <= average <= threshold.
C7_RangeSelects ==
    (threshold_range # None /\ threshold_range[1] <= threshold) =>
        \A k \in 1..NumFrames :
            emitted[k] # "unset" =>
               (emitted[k] = "filtered"
                  <=> (threshold_range[1] <= avg[k] /\ avg[k] <= threshold))

\* C8 as stated: with threshold_range not None and above threshold, the
\* call raises: it builds no clip and no frame is ever decided.
C8_RangeAboveThresholdRaises ==
    (threshold_range # None /\ threshold_range[1] > threshold) =>
        /\ ld_pc \in {"call", "raised"}
        /\ \A k \in 1..NumFrames : emitted[k] = "unset"

\* ---------------------------------- frames_since_bookmark: the claims
\* ascending, equal neighbours allowed
Sorted(marks) == \A j \in 1..(Len(marks) - 1) : marks[j] <= marks[j + 1]

\* the greatest bookmark that is <= frame
GreatestAtMost(frame, marks) ==
    CHOOSE b \in {marks[j] : j \in 1..Len(marks)} :
        /\ b <= frame
        /\ \A j \in 1..Len(marks) : marks[j] <= frame => marks[j] <= b

\* C9: on a list sorted ascending that starts with 0, the callback never
\* ends unbound, and the value it returns for frame n is n - b, b the
\* greatest bookmark <= n.
C9_SinceGreatestBookmark ==
    (Len(bookmarks) > 0 /\ bookmarks[1] = 0 /\ Sorted(bookmarks)) =>
        /\ fsb_pc # "unbound"
        /\ fsb_pc = "returned" =>
              result = Some(n - GreatestAtMost(n, bookmarks))

\* the callback has returned, on a sorted list of three bookmarks, for a
\* frame past the second bookmark and before the third
C9_Witness ==
    /\ fsb_pc = "returned"
    /\ Len(bookmarks) = 3 /\ bookmarks[1] = 0 /\ Sorted(bookmarks)
    /\ bookmarks[2] > 0
    /\ bookmarks[2] < n /\ n < bookmarks[3]
    /\ result = Some(n - bookmarks[2])

\* C10: on a list in the form load_bookmarks produces (first element 0,
\* the rest in any order) the loop assigns result before it is over, the
\* callback never ends unbound, and the result is >= 0.
C10_ResultAlwaysBound ==
    (Len(bookmarks) > 0 /\ bookmarks = load_bookmarks(raw)) =>
        /\ bookmarks[1] = 0
        /\ fsb_pc # "unbound"
        /\ (LoopOver \/ fsb_pc = "returned") =>
              /\ result # None
              /\ result[1] >= 0

\* the callback has returned on a list that load_bookmarks completed with
\* a leading 0 and that is not sorted
C10_Witness ==
    /\ fsb_pc = "returned"
    /\ raw[1] # 0
    /\ bookmarks = load_bookmarks(raw)
    /\ ~Sorted(bookmarks)
    /\ n < raw[1]

=============================================================================
